---- MODULE Spec2Model ----
(***************************************************************************)
(* Model of repls/subprocess_repl.py (SublimeREPL): the subprocess REPL,   *)
(* SubprocessRepl, and its virtual-environment launcher,                   *)
(* SubprocessReplVenv.                                                     *)
(*                                                                         *)
(* Spec      the life of one launched SubprocessRepl, used by two threads: *)
(*           one calls read_bytes again and again, the other calls         *)
(*           is_alive, write_bytes, kill and send_signal.  Each call is a  *)
(*           run of steps, one per place where the code can wait or where  *)
(*           the other thread or a child process can come between; the     *)
(*           child processes exit, print and read as they please.          *)
(* SpecLive  Spec with the fairness of the program's own steps.            *)
(* SpecVenv  launches: SubprocessRepl.__init__ and                         *)
(*           SubprocessReplVenv.__init__ called again and again in one     *)
(*           host process, sharing the module-level VENVS_ENVIRON; a       *)
(*           SubprocessReplVenv.__init__ call waits for each of its        *)
(*           activation shells, and another may begin meanwhile.           *)
(***************************************************************************)
EXTENDS Integers, Sequences, FiniteSets, TLC, Bags

\* ------------------------------------------------------------------ bounds
\* Most bytes the children have printed that no read_bytes call has
\* returned yet (in the pipe, or with the reader).
MaxOut == 2
\* Most bytes the primary's stdin pipe holds unread (its capacity).
MaxIn == 1
\* Most SubprocessReplVenv.__init__ calls under way at once.
MaxCalls == 2

\* ------------------------------------------------------- program constants
\* signal.SIGTERM, compared with in send_signal; SIGINT is another member of
\* the platform's signal namespace (available_signals).
SIGTERM == 15
SIGINT == 2
\* io.DEFAULT_BUFFER_SIZE, the chunk size of the select-based read.
DEFAULT_BUFFER_SIZE == 8192

Signals == {SIGINT, SIGTERM}

\* Bytes a child may print: a letter, a carriage return.
\* b'\r', the byte the one-byte read strategy discards.
CR == 13
Bytes == {97, CR}

\* Soft-quit strings a REPL is configured with: none (the default "") or a
\* one-character command.
SoftQuits == {<<>>, <<"q">>}

VARIABLES
    POSIX,        \* os.name == 'posix' (module level, lines 21-26)
    filt_warns,   \* self._filt_warns
    soft_quit,    \* self._soft_quit
    killed,       \* self._killed
    popen,        \* the primary process behind self.popen: "running" | "exited"
    filt,         \* the filter process behind self.filt when filt_warns
                  \* ("running" | "exited"); "alias" when self.filt is self.popen
    desc,         \* a process the primary started still holds the write end
                  \* of the primary's stdout pipe
    descIn,       \* a process the primary started still holds the read end
                  \* of the primary's stdin pipe
    out,          \* bytes waiting in the pipe behind self.filt.stdout
    held,         \* bytes self.filt.stdout (a BufferedReader) has read from
                  \* the pipe into its buffer and not handed out yet
    got,          \* bytes the out.read(bufsize) in progress has gathered
    fed,          \* bytes the out.read(bufsize) in progress has read into
                  \* the buffer (the buffer's fill mark)
    inq,          \* bytes waiting, unread, in the primary's stdin pipe
    unflushed,    \* the writer of self.popen.stdin holds bytes no flush has
                  \* written yet
    pc,           \* position of the calling thread: "idle", or inside a
                  \* write_bytes, kill or send_signal call
    rd,           \* position of the reading thread: "idle", or inside a
                  \* read_bytes call
    sig,          \* the signal of the send_signal call in progress / last made
    lastOp,       \* the operation (or environment event) of the last step
    ret,          \* what the last step returned
    err,          \* the exception the last step raised, or "none"
    killTrace,    \* what the kill() call in progress / last made did, in order
    sigTrace,     \* the deliveries of the send_signal call in progress /
                  \* last made, in order
    readTrace,    \* the bytes the last step read from self.filt.stdout
    VENVS_ENVIRON, \* the module-level dict: tag -> sourced environment
    launch,       \* the __init__ call that ended last: its inputs and what it did
    calls         \* the SubprocessReplVenv.__init__ calls waiting for an
                  \* activation shell (a bag of them)

lifeVars == <<filt_warns, soft_quit, killed, popen, filt, desc, descIn, out,
              held, got, fed, inq, unflushed, pc, rd, sig, lastOp, ret, err,
              killTrace, sigTrace, readTrace>>
venvVars == <<VENVS_ENVIRON, launch, calls>>
vars == <<POSIX, lifeVars, venvVars>>

\* --------------------------------------------------------- Python values
\* bool is a subclass of int: True is 1 and False is 0, of type bool.
PyBool(b) == [type |-> "bool", v |-> IF b THEN 1 ELSE 0]
PyInt(n) == [type |-> "int", v |-> n]
PyBytes(s) == [type |-> "bytes", v |-> s]
PyNone == [type |-> "NoneType", v |-> 0]
Truthy(x) == IF x.type = "bytes" THEN x.v # <<>> ELSE x.v # 0
\* x and y
PyAnd(x, y) == IF Truthy(x) THEN y ELSE x

\* A call f(x), f(x, y): Python evaluates the arguments once, before the
\* body runs.
Call(F(_), x) == CHOOSE r \in { F(a) : a \in {x} } : TRUE
Call2(F(_, _), x, y) == CHOOSE r \in { F(a, b) : a \in {x}, b \in {y} } : TRUE

\* ------------------------------------------------- the process handles
\* Popen.poll(): None while the process has not terminated.
PollIsNone(proc) == proc = "running"

\* The process behind self.filt: the filter, or the primary itself when the
\* filter is disabled (self.filt = self.popen, line 116).
FiltProc == IF filt_warns THEN filt ELSE popen

\* Some process holds the write end of the pipe behind self.filt.stdout:
\* the filter (stdout=subprocess.PIPE, line 112), or without it the primary
\* and the processes the primary started, which inherit its stdout.
Writers == IF filt_warns THEN filt = "running" ELSE popen = "running" \/ desc

\* The descriptor is readable: bytes are waiting in the pipe, or it is at
\* end of file, which a pipe is once its last writer has closed it.  What
\* self.filt.stdout holds in its own buffer is not in the pipe.
Readable == out # <<>> \/ ~Writers

\* Some process holds the write end of the primary's stdout pipe, which is
\* the input of the filter (stdin=self.popen.stdout, line 111): the primary
\* and the processes it started.
FilterInput == popen = "running" \/ desc

\* Some process holds the read end of the primary's stdin pipe: the primary
\* (stdin=subprocess.PIPE, line 94) and the processes it started, which
\* inherit its stdin.
Readers == popen = "running" \/ descIn

\* What is left in the stdin pipe when the primary is gone: the bytes, as
\* long as another process holds the read end.
LeftUnread(queued, inherited) == IF inherited THEN queued ELSE 0

\* Repl.encoder(command)[0]: one byte per (ASCII) character.
Ord(c) == IF c = "q" THEN 113 ELSE 63
encoder(command) == [i \in 1..Len(command) |-> Ord(command[i])]

\* si.write(bytes): the bytes go into the buffer of the writer, behind the
\* ones an earlier flush could not write.
Buffered(bytes, buffered) == buffered \/ bytes # <<>>

\* si.flush() on the primary's stdin pipe: nothing to do for an empty
\* buffer; BrokenPipeError when no process holds the read end of the pipe
\* any more; the call waits while the pipe has no room; else the bytes go
\* into the pipe.
Flush(buffered, readers, queued) ==
    IF ~buffered THEN "nothing"
    ELSE IF ~readers THEN "BrokenPipeError"
    ELSE IF queued >= MaxIn THEN "waits"
    ELSE "written"

\* The traces of the calling thread start empty with each of its calls.
NoTraces == killTrace' = <<>> /\ sigTrace' = <<>> /\ sig' = 0

\* ------------------------------------------------------------- is_alive
IsAliveValue_IgnoreFilter(primary, filter, filtOn) == PyBool(PollIsNone(primary))

\* a = self.popen.poll() is None
\* b = self.filt.poll() is None if self._filt_warns else 1
\* return a and b
IsAliveValue(primary, filter, filtOn) ==
    LET a == PyBool(PollIsNone(primary))
        b == IF filtOn THEN PyBool(PollIsNone(filter)) ELSE PyInt(1)
    IN  PyAnd(a, b)

is_alive ==
    /\ pc = "idle"
    /\ ret' = IsAliveValue(popen, FiltProc, filt_warns)
    /\ err' = "none"
    /\ NoTraces
    /\ readTrace' = <<>>
    /\ lastOp' = "is_alive"
    /\ UNCHANGED <<POSIX, filt_warns, soft_quit, killed, popen, filt, desc, out,
                   inq, unflushed, pc, rd, venvVars,
                   descIn, held, got, fed>>

\* ----------------------------------------------------------- read_bytes
Min(a, b) == IF a < b THEN a ELSE b
Take(s, n) == SubSeq(s, 1, Min(n, Len(s)))
Drop(s, n) == SubSeq(s, Min(n, Len(s)) + 1, Len(s))

\* What the one-byte loop does with the byte it read: round again on
\* b'\r', return anything else (b'' at end of file too).
GoesRound_Never(byte) == FALSE
GoesRound(byte) == byte = <<CR>>

\* The reading thread calls read_bytes(): out = self.filt.stdout, and the
\* branch on POSIX.
read_bytes ==
    /\ rd = "idle"
    /\ rd' = IF POSIX THEN "select" ELSE "read"
    /\ ret' = PyNone
    /\ err' = "none"
    /\ readTrace' = <<>>
    /\ lastOp' = "read_bytes"
    /\ UNCHANGED <<POSIX, filt_warns, soft_quit, killed, popen, filt, desc, out,
                   inq, unflushed, pc, sig, killTrace, sigTrace, venvVars,
                   descIn, held, got, fed>>

\* POSIX: select() until the descriptor is readable (data in the pipe, or
\* end of file); then out.read(bufsize) begins.
read_bytes_posix ==
    /\ rd = "select"
    /\ Readable
    /\ rd' = "out.read"
    /\ ret' = PyNone
    /\ err' = "none"
    /\ readTrace' = <<>>
    /\ lastOp' = "read_bytes"
    /\ UNCHANGED <<POSIX, filt_warns, soft_quit, killed, popen, filt, desc, out,
                   inq, unflushed, pc, sig, killTrace, sigTrace, venvVars,
                   descIn, held, got, fed>>

\* One read of the descriptor for n bytes: what the pipe holds of them.
RawRead(pipe, n) == Take(pipe, n)

\* The bytes the next read of the descriptor asks for, in an
\* out.read(bufsize) that has gathered `written` bytes and has read `filled`
\* bytes into the buffer: none once it has bufsize bytes; a whole block,
\* read straight into the result, while it has none; else the room left in
\* the buffer, which it has emptied at the start.
RawAsk(written, filled) ==
    IF written = DEFAULT_BUFFER_SIZE THEN 0
    ELSE IF written = 0 THEN DEFAULT_BUFFER_SIZE
    ELSE DEFAULT_BUFFER_SIZE - filled

\* return out.read(bufsize): the reader hands out what its buffer holds,
\* and while that is fewer than bufsize bytes it reads the descriptor
\* again, one read per step; it returns with bufsize bytes, or when a read
\* finds nothing (end of file, or nothing waiting: the descriptor is
\* non-blocking, lines 118-120).  Bytes read beyond bufsize stay in its
\* buffer.
out_read ==
    /\ rd = "out.read"
    /\ \E mine \in {got \o Take(held, DEFAULT_BUFFER_SIZE - Len(got))} :
       \E rest \in {Drop(held, DEFAULT_BUFFER_SIZE - Len(got))} :
       \E data \in {RawRead(out, RawAsk(Len(mine), fed))} :
       \E all \in {mine \o Take(data, DEFAULT_BUFFER_SIZE - Len(mine))} :
          /\ out' = Drop(out, Len(data))
          /\ held' = rest \o Drop(data, DEFAULT_BUFFER_SIZE - Len(mine))
          /\ readTrace' = data
          /\ IF data = <<>> \/ Len(all) = DEFAULT_BUFFER_SIZE
             THEN rd' = "idle" /\ ret' = PyBytes(all) /\ got' = <<>> /\ fed' = 0
             ELSE /\ rd' = "out.read" /\ ret' = PyNone /\ got' = all
                  /\ fed' = IF mine = <<>> THEN 0 ELSE fed + Len(data)
    /\ err' = "none"
    /\ lastOp' = "read_bytes"
    /\ UNCHANGED <<POSIX, filt_warns, soft_quit, killed, popen, filt, desc,
                   inq, unflushed, pc, sig, killTrace, sigTrace, venvVars,
                   descIn>>

\* Otherwise: one round of the loop.  out.read(1) hands out a byte of the
\* reader's buffer; with an empty buffer it waits for the descriptor, reads
\* what the pipe holds into the buffer and hands out the first byte (b'' at
\* end of file).  b'\r' sends the loop round again, any other result is
\* returned.
read_bytes_one ==
    /\ rd = "read"
    /\ held # <<>> \/ Readable
    /\ \E data \in {IF held # <<>> THEN <<>> ELSE RawRead(out, DEFAULT_BUFFER_SIZE)} :
       \E byte \in {Take(held \o data, 1)} :
          /\ out' = Drop(out, Len(data))
          /\ held' = Drop(held \o data, 1)
          /\ IF GoesRound(byte)
             THEN rd' = "read" /\ ret' = PyNone
             ELSE rd' = "idle" /\ ret' = PyBytes(byte)
          /\ readTrace' = byte
    /\ err' = "none"
    /\ lastOp' = "read_bytes"
    /\ UNCHANGED <<POSIX, filt_warns, soft_quit, killed, popen, filt, desc,
                   inq, unflushed, pc, sig, killTrace, sigTrace, venvVars,
                   descIn, got, fed>>

\* ---------------------------------------------------------- write_bytes
\* Inputs of write_bytes: nothing, or one byte.
WriteInputs == {<<>>, <<97>>}

\* si = self.popen.stdin; si.write(bytes)
write_bytes ==
    /\ pc = "idle"
    /\ \E bytes \in WriteInputs : unflushed' = Buffered(bytes, unflushed)
    /\ pc' = "si.flush"
    /\ ret' = PyNone
    /\ err' = "none"
    /\ NoTraces
    /\ readTrace' = <<>>
    /\ lastOp' = "write_bytes"
    /\ UNCHANGED <<POSIX, filt_warns, soft_quit, killed, popen, filt, desc, out,
                   inq, rd, venvVars,
                   descIn, held, got, fed>>

\* si.flush(): the call returns, or raises, once it does not have to wait.
write_bytes_flush ==
    /\ pc = "si.flush"
    /\ Flush(unflushed, Readers, inq) # "waits"
    /\ \E f \in {Flush(unflushed, Readers, inq)} :
          /\ err' = IF f = "BrokenPipeError" THEN f ELSE "none"
          /\ unflushed' = (f = "BrokenPipeError")
          /\ inq' = IF f = "written" THEN inq + 1 ELSE inq
    /\ pc' = "idle"
    /\ ret' = PyNone
    /\ readTrace' = <<>>
    /\ lastOp' = "write_bytes"
    /\ UNCHANGED <<POSIX, filt_warns, soft_quit, killed, popen, filt, desc, out,
                   rd, sig, killTrace, sigTrace, venvVars,
                   descIn, held, got, fed>>

\* ----------------------------------------------------------------- kill
\* self._killed = True, and self.write(self._soft_quit) up to its flush:
\* the encoded command is in the writer's buffer.
kill ==
    /\ pc = "idle"
    /\ killed' = TRUE
    /\ unflushed' = Buffered(encoder(soft_quit), unflushed)
    /\ pc' = "kill.write"
    /\ killTrace' = <<"set_killed">>
    /\ sigTrace' = <<>>
    /\ sig' = 0
    /\ ret' = PyNone
    /\ err' = "none"
    /\ readTrace' = <<>>
    /\ lastOp' = "kill"
    /\ UNCHANGED <<POSIX, filt_warns, soft_quit, popen, filt, desc, out, inq,
                   rd, venvVars,
                   descIn, held, got, fed>>

\* The flush of self.write(self._soft_quit): an exception here ends the
\* call; the call waits while the pipe has no room.
kill_write ==
    /\ pc = "kill.write"
    /\ Flush(unflushed, Readers, inq) # "waits"
    /\ \E f \in {Flush(unflushed, Readers, inq)} :
          /\ err' = IF f = "BrokenPipeError" THEN f ELSE "none"
          /\ unflushed' = (f = "BrokenPipeError")
          /\ inq' = IF f = "written" THEN inq + 1 ELSE inq
          /\ pc' = IF f = "BrokenPipeError" THEN "idle" ELSE "kill.popen"
          /\ killTrace' = Append(killTrace, IF f = "BrokenPipeError"
                                            THEN "write_raised" ELSE "write")
    /\ ret' = PyNone
    /\ readTrace' = <<>>
    /\ lastOp' = "kill"
    /\ UNCHANGED <<POSIX, filt_warns, soft_quit, killed, popen, filt, desc, out,
                   rd, sig, sigTrace, venvVars,
                   descIn, held, got, fed>>

\* self.popen.kill()
kill_popen ==
    /\ pc = "kill.popen"
    /\ popen' = "exited"
    /\ inq' = LeftUnread(inq, descIn)
    /\ pc' = IF filt_warns THEN "kill.filt" ELSE "idle"
    /\ killTrace' = Append(killTrace, "popen.kill")
    /\ ret' = PyNone
    /\ err' = "none"
    /\ readTrace' = <<>>
    /\ lastOp' = "kill"
    /\ UNCHANGED <<POSIX, filt_warns, soft_quit, killed, filt, desc, out,
                   unflushed, rd, sig, sigTrace, venvVars,
                   descIn, held, got, fed>>

\* if self._filt_warns: self.filt.kill()
kill_filt ==
    /\ pc = "kill.filt"
    /\ filt' = "exited"
    /\ pc' = "idle"
    /\ killTrace' = Append(killTrace, "filt.kill")
    /\ ret' = PyNone
    /\ err' = "none"
    /\ readTrace' = <<>>
    /\ lastOp' = "kill"
    /\ UNCHANGED <<POSIX, filt_warns, soft_quit, killed, popen, desc, out, inq,
                   unflushed, rd, sig, sigTrace, venvVars,
                   descIn, held, got, fed>>

\* ---------------------------------------------------------- send_signal
KilledAfterSignal_Assign(k, s) == s = SIGTERM
KilledAfterSignal_Always(k, s) == TRUE

\* if sig == signal.SIGTERM: self._killed = True
KilledAfterSignal(k, s) == k \/ s = SIGTERM

AfterPopen_Never(filtOn) == "idle"

\* The handle send_signal turns to after the primary's: the filter's with
\* filt_warns, none without.
AfterPopen(filtOn) == IF filtOn THEN "filt.send_signal" ELSE "idle"

\* The call up to its liveness test: the flag, then `if self.is_alive():`.
send_signal ==
    /\ pc = "idle"
    /\ \E s \in Signals :
          /\ sig' = s
          /\ killed' = KilledAfterSignal(killed, s)
    /\ pc' = IF Truthy(IsAliveValue(popen, FiltProc, filt_warns))
             THEN "popen.send_signal" ELSE "idle"
    /\ sigTrace' = <<>>
    /\ killTrace' = <<>>
    /\ ret' = PyNone
    /\ err' = "none"
    /\ readTrace' = <<>>
    /\ lastOp' = "send_signal"
    /\ UNCHANGED <<POSIX, filt_warns, soft_quit, popen, filt, desc, out, inq,
                   unflushed, rd, venvVars,
                   descIn, held, got, fed>>

\* Popen.send_signal(sig) of a handle: the signal is delivered to the
\* process of the handle, in the state the process is in by then.
Popen_send_signal(to, proc, s) == [to |-> to, sig |-> s, running |-> proc = "running"]

\* self.popen.send_signal(sig)
send_signal_popen ==
    /\ pc = "popen.send_signal"
    /\ sigTrace' = Append(sigTrace, Popen_send_signal("popen", popen, sig))
    /\ pc' = AfterPopen(filt_warns)
    /\ ret' = PyNone
    /\ err' = "none"
    /\ readTrace' = <<>>
    /\ lastOp' = "send_signal"
    /\ UNCHANGED <<POSIX, filt_warns, soft_quit, killed, popen, filt, desc, out,
                   inq, unflushed, rd, sig, killTrace, venvVars,
                   descIn, held, got, fed>>

\* if self._filt_warns: self.filt.send_signal(sig)
send_signal_filt ==
    /\ pc = "filt.send_signal"
    /\ sigTrace' = Append(sigTrace, Popen_send_signal("filt", filt, sig))
    /\ pc' = "idle"
    /\ ret' = PyNone
    /\ err' = "none"
    /\ readTrace' = <<>>
    /\ lastOp' = "send_signal"
    /\ UNCHANGED <<POSIX, filt_warns, soft_quit, killed, popen, filt, desc, out,
                   inq, unflushed, rd, sig, killTrace, venvVars,
                   descIn, held, got, fed>>

\* ------------------------------------------------------ the environment
\* The primary process terminates (on its own, or of a signal it was sent);
\* what it left unread in its stdin pipe is gone with the pipe's last reader.
PrimaryExit ==
    /\ popen = "running"
    /\ popen' = "exited"
    /\ inq' = LeftUnread(inq, descIn)
    /\ ret' = PyNone
    /\ err' = "none"
    /\ readTrace' = <<>>
    /\ lastOp' = "PrimaryExit"
    /\ UNCHANGED <<POSIX, filt_warns, soft_quit, killed, filt, desc, out,
                   unflushed, pc, rd, sig, killTrace, sigTrace, venvVars,
                   descIn, held, got, fed>>

\* The filter, cat (line 104), reads the end of its input and exits: no
\* process holds the write end of the primary's stdout any more.
FilterEndOfInput ==
    /\ filt = "running"
    /\ ~FilterInput
    /\ filt' = "exited"
    /\ ret' = PyNone
    /\ err' = "none"
    /\ readTrace' = <<>>
    /\ lastOp' = "FilterExit"
    /\ UNCHANGED <<POSIX, filt_warns, soft_quit, killed, popen, desc, out, inq,
                   unflushed, pc, rd, sig, killTrace, sigTrace, venvVars,
                   descIn, held, got, fed>>

\* The filter process terminates of a signal it was sent.
FilterExit ==
    /\ filt = "running"
    /\ filt' = "exited"
    /\ ret' = PyNone
    /\ err' = "none"
    /\ readTrace' = <<>>
    /\ lastOp' = "FilterExit"
    /\ UNCHANGED <<POSIX, filt_warns, soft_quit, killed, popen, desc, out, inq,
                   unflushed, pc, rd, sig, killTrace, sigTrace, venvVars,
                   descIn, held, got, fed>>

\* What a process the primary starts may inherit of the primary's pipes:
\* its stdin, its stdout, or both.  With the filter the primary's stdout is
\* the filter's input, and the pipe self.filt.stdout reads from has the
\* filter for its one writer.
Inherits == { e \in [stdin : BOOLEAN, stdout : BOOLEAN] : e.stdin \/ e.stdout }

\* The primary starts a process.
DescendantStart ==
    /\ popen = "running"
    /\ \E e \in Inherits :
          /\ desc' = (desc \/ e.stdout)
          /\ descIn' = (descIn \/ e.stdin)
    /\ <<desc', descIn'>> # <<desc, descIn>>
    /\ ret' = PyNone
    /\ err' = "none"
    /\ readTrace' = <<>>
    /\ lastOp' = "DescendantStart"
    /\ UNCHANGED <<POSIX, filt_warns, soft_quit, killed, popen, filt, out, inq,
                   unflushed, pc, rd, sig, killTrace, sigTrace, venvVars,
                   held, got, fed>>

\* The last such process holding the stdout terminates, or closes it.
DescendantExit ==
    /\ desc
    /\ desc' = FALSE
    /\ ret' = PyNone
    /\ err' = "none"
    /\ readTrace' = <<>>
    /\ lastOp' = "DescendantExit"
    /\ UNCHANGED <<POSIX, filt_warns, soft_quit, killed, popen, filt, out, inq,
                   unflushed, pc, rd, sig, killTrace, sigTrace, venvVars,
                   descIn, held, got, fed>>

\* The last such process holding the stdin terminates, or closes it.
DescendantClosesStdin ==
    /\ descIn
    /\ descIn' = FALSE
    /\ inq' = LeftUnread(inq, popen = "running")
    /\ ret' = PyNone
    /\ err' = "none"
    /\ readTrace' = <<>>
    /\ lastOp' = "DescendantClosesStdin"
    /\ UNCHANGED <<POSIX, filt_warns, soft_quit, killed, popen, filt, desc, out,
                   unflushed, pc, rd, sig, killTrace, sigTrace, venvVars,
                   held, got, fed>>

\* A process holding the write end of the pipe prints one byte.
ChildOutput ==
    /\ Writers
    /\ Len(out) + Len(held) + Len(got) < MaxOut
    /\ \E b \in Bytes : out' = Append(out, b)
    /\ ret' = PyNone
    /\ err' = "none"
    /\ readTrace' = <<>>
    /\ lastOp' = "ChildOutput"
    /\ UNCHANGED <<POSIX, filt_warns, soft_quit, killed, popen, filt, desc, inq,
                   unflushed, pc, rd, sig, killTrace, sigTrace, venvVars,
                   descIn, held, got, fed>>

\* A process holding the read end of the stdin pipe reads one byte.
ChildInput ==
    /\ Readers
    /\ inq > 0
    /\ inq' = inq - 1
    /\ ret' = PyNone
    /\ err' = "none"
    /\ readTrace' = <<>>
    /\ lastOp' = "ChildInput"
    /\ UNCHANGED <<POSIX, filt_warns, soft_quit, killed, popen, filt, desc, out,
                   unflushed, pc, rd, sig, killTrace, sigTrace, venvVars,
                   descIn, held, got, fed>>

\* ======================================================================
\* Launching: SubprocessRepl.__init__ and SubprocessReplVenv.__init__
\* ======================================================================

\* -------------------------------------------------------------- strings
\* A string is a sequence of tokens and a token a sequence of names: a
\* separator (":" or "="), a newline, a replacement field {name}, or a run
\* of other text such as a path, kept as its components.
Colon == <<":">>
Eq == <<"=">>
NL == <<"NL">>
Field(name) == <<"{}", name>>
Str(name) == << <<name>> >>
IsField(tok) == Len(tok) = 2 /\ tok[1] = "{}"

\* A dict with string keys; the empty dict (falsy, like None).
EmptyEnv == [k \in {} |-> <<>>]

\* s.split(sep)
RECURSIVE Split(_, _)
Split(s, sep) ==
    IF s = <<>> THEN << <<>> >>
    ELSE LET rest == Split(Tail(s), sep)
         IN  IF Head(s) = sep
             THEN << <<>> >> \o rest
             ELSE << <<Head(s)>> \o rest[1] >> \o Tail(rest)

\* sep.join(parts)
RECURSIVE Join(_, _)
Join(parts, sep) ==
    IF parts = <<>> THEN <<>>
    ELSE IF Len(parts) = 1 THEN parts[1]
    ELSE parts[1] \o <<sep>> \o Join(Tail(parts), sep)

\* list.insert(i, x), i counted from 0
Insert(list, i, x) ==
    SubSeq(list, 1, Min(i, Len(list))) \o <<x>>
        \o SubSeq(list, Min(i, Len(list)) + 1, Len(list))

\* line.split('=', 1): one element without a separator, else two.
RECURSIVE IndexOf(_, _)
IndexOf(s, tok) ==
    IF s = <<>> THEN 0
    ELSE IF Head(s) = tok THEN 1
    ELSE LET i == IndexOf(Tail(s), tok) IN IF i = 0 THEN 0 ELSE i + 1

SplitFirst(s, sep) ==
    LET i == IndexOf(s, sep)
    IN  IF i = 0 THEN <<s>>
        ELSE <<SubSeq(s, 1, i - 1), SubSeq(s, i + 1, Len(s))>>

\* dict(pairs): a later pair overrides an earlier one of the same key.
RECURSIVE DictOf(_)
DictOf(pairs) ==
    IF pairs = <<>> THEN EmptyEnv
    ELSE LET n == Len(pairs)
         IN  (pairs[n][1] :> pairs[n][2]) @@ DictOf(SubSeq(pairs, 1, n - 1))

\* d.update(new)
Update(d, new) == new @@ d

\* ------------------------------------------------- interpolate_extend_env
\* str(val).format(**env): each replacement field becomes env's value of
\* that name; a name env does not hold raises KeyError.
RECURSIVE Format(_, _)
Format(val, env) ==
    IF val = <<>> THEN [ok |-> TRUE, v |-> <<>>]
    ELSE LET tok == Head(val)
             rest == Format(Tail(val), env)
         IN  IF IsField(tok) /\ Str(tok[2]) \notin DOMAIN env
             THEN [ok |-> FALSE, v |-> <<>>]
             ELSE IF ~rest.ok THEN rest
             ELSE [ok |-> TRUE,
                   v |-> (IF IsField(tok) THEN env[Str(tok[2])] ELSE <<tok>>)
                         \o rest.v]

interpolate_extend_env_SamePhase(env, extend_env) ==
    IF \E k \in DOMAIN extend_env : ~Format(extend_env[k], extend_env @@ env).ok
    THEN [ok |-> FALSE, v |-> EmptyEnv]
    ELSE [ok |-> TRUE,
          v |-> [k \in DOMAIN extend_env |-> Format(extend_env[k], extend_env @@ env).v]]

\* new_env[key] = str(val).format(**env) for every key of extend_env
interpolate_extend_env(env, extend_env) ==
    IF \E k \in DOMAIN extend_env : ~Format(extend_env[k], env).ok
    THEN [ok |-> FALSE, v |-> EmptyEnv]
    ELSE [ok |-> TRUE,
          v |-> [k \in DOMAIN extend_env |-> Format(extend_env[k], env).v]]

\* --------------------------------------------------------------- getenv
\* The loop over kw_pairs: a pair of one element is appended, after a
\* newline, to the value of the previous pair (IndexError when there is
\* none yet).
RECURSIVE Sanitize(_, _)
Sanitize(kw_pairs, santized) ==
    IF kw_pairs = <<>> THEN [ok |-> TRUE, v |-> santized]
    ELSE LET kw == Head(kw_pairs)
         IN  IF Len(kw) = 1
             THEN IF santized = <<>>
                  THEN [ok |-> FALSE, v |-> santized]
                  ELSE Sanitize(Tail(kw_pairs),
                           [santized EXCEPT ![Len(santized)][2] = @ \o <<NL>> \o kw[1]])
             ELSE Sanitize(Tail(kw_pairs), Append(santized, kw))

\* os.environ.copy(): the environment the host process inherited.
OsEnviron ==
    (Str("PATH") :> << <<"usr", "bin">> >>) @@ (Str("HOME") :> << <<"home">> >>)

\* What `getenv_command` may answer: a dump of the login shell's
\* environment, the same with a value of two lines (the second has no '=',
\* the first holds two), a dump whose first line has no '=', or a failing
\* command.
LoginDump ==
    << << <<"PATH">>, Eq, <<"usr", "local", "bin">>, Colon, <<"usr", "bin">> >>,
       << <<"HOME">>, Eq, <<"home">> >> >>
TwoLineDump ==
    << << <<"PS1">>, Eq, <<"a">>, Eq, <<"b">> >>, << <<"$">> >> >> \o LoginDump
LoginQueries ==
    { [ok |-> TRUE, dump |-> LoginDump],
      [ok |-> TRUE, dump |-> TwoLineDump],
      [ok |-> TRUE, dump |-> << << <<"motd">> >> >> \o LoginDump],
      [ok |-> FALSE, dump |-> <<>>] }

\* The try block of getenv: check_output raises CalledProcessError when the
\* command fails, the loop raises IndexError on a first line without '='.
getenv_try(query) ==
    LET kw_pairs == [i \in 1..Len(query.dump) |-> SplitFirst(query.dump[i], Eq)]
        san == Sanitize(kw_pairs, <<>>)
    IN  IF ~query.ok THEN [raised |-> "CalledProcessError", env |-> EmptyEnv]
        ELSE IF ~san.ok THEN [raised |-> "IndexError", env |-> EmptyEnv]
        ELSE [raised |-> "none", env |-> DictOf(san.v)]

getenv_ExceptOSError(getenv_command, posix, query) ==
    IF getenv_command /\ posix
    THEN LET t == getenv_try(query)
         IN  IF t.raised = "none" THEN [env |-> t.env, spawned |-> TRUE, error |-> "none"]
             ELSE IF t.raised = "CalledProcessError"
             THEN [env |-> OsEnviron, spawned |-> TRUE, error |-> "none"]
             ELSE [env |-> EmptyEnv, spawned |-> TRUE, error |-> t.raised]
    ELSE [env |-> OsEnviron, spawned |-> FALSE, error |-> "none"]

\* getenv(settings): [env, spawned, error]; spawned tells whether the
\* login-shell query subprocess was started, error is the exception that
\* leaves getenv.  `except:` catches whatever the try block raised, and the
\* call falls through to os.environ.copy().
getenv(getenv_command, posix, query) ==
    IF getenv_command /\ posix
    THEN LET t == getenv_try(query)
         IN  IF t.raised = "none" THEN [env |-> t.env, spawned |-> TRUE, error |-> "none"]
             ELSE [env |-> OsEnviron, spawned |-> TRUE, error |-> "none"]
    ELSE [env |-> OsEnviron, spawned |-> FALSE, error |-> "none"]

\* ----------------------------------------------------------- the disk
\* Two roots of virtual environments; "py3" exists under both, and envsB
\* holds an environment directory named "root".  envsA/py3 and envsB/root
\* have a wrappers/conda directory, the others have none.
RootA == <<"home", "envsA">>
RootB == <<"home", "envsB">>
EnvDirs == (RootA :> {"py2", "py3"}) @@ (RootB :> {"py3", "root"})
WrapperDirsOnDisk ==
    { RootA \o <<"py3", "bin", "wrappers", "conda">>,
      RootB \o <<"root", "bin", "wrappers", "conda">> }

\* Order of names in sorted(): plain string order.
NameRank ==
    ("home" :> 1) @@ ("envsA" :> 1) @@ ("envsB" :> 2)
        @@ ("py2" :> 1) @@ ("py3" :> 2) @@ ("root" :> 3) @@ ("bin" :> 1)
RECURSIVE PathLess(_, _)
PathLess(p, q) ==
    IF p = <<>> THEN q # <<>>
    ELSE IF q = <<>> THEN FALSE
    ELSE IF Head(p) = Head(q) THEN PathLess(Tail(p), Tail(q))
    ELSE NameRank[Head(p)] < NameRank[Head(q)]

RECURSIVE Sorted(_)
Sorted(S) ==
    IF S = {} THEN <<>>
    ELSE LET m == CHOOSE x \in S : \A y \in S \ {x} : PathLess(x, y)
         IN  <<m>> \o Sorted(S \ {m})

dirname(path) == SubSeq(path, 1, Len(path) - 1)
basename(path) == path[Len(path)]

\* ------------------------------------------------- scan_for_virtualenvs
\* glob of <venv_path>/*/bin for every venv_path, as a sorted list.
scan_for_virtualenvs(venv_paths) ==
    Sorted(UNION { { venv_paths[i] \o <<t, "bin">> : t \in EnvDirs[venv_paths[i]] } :
                     i \in DOMAIN venv_paths })

\* {os.path.basename(os.path.dirname(_)): _ for _ in found}
RECURSIVE BinDirs(_)
BinDirs(found) ==
    IF found = <<>> THEN EmptyEnv
    ELSE LET n == Len(found)
         IN  (Str(basename(dirname(found[n]))) :> found[n])
                 @@ BinDirs(SubSeq(found, 1, n - 1))

\* {k: os.path.join(v, 'wrappers/conda') for k, v in venvs_bin_dir.items()}
WrappersDir(venvs_bin_dir) ==
    [k \in DOMAIN venvs_bin_dir |-> venvs_bin_dir[k] \o <<"wrappers", "conda">>]

\* The tags in the order venvs_bin_dir.keys() yields them: first insertion.
RECURSIVE KeysInOrder(_, _)
KeysInOrder(found, seen) ==
    IF found = <<>> THEN <<>>
    ELSE LET k == Str(basename(dirname(Head(found))))
         IN  IF k \in seen THEN KeysInOrder(Tail(found), seen)
             ELSE <<k>> \o KeysInOrder(Tail(found), seen \cup {k})

\* --------------------------------------------------------- shell_source
\* What `bash --login -c '. SCRIPT PY_VER; env'` may print for a tag whose
\* binary directory is bin: the activated environment, or the same with an
\* exported shell function, whose body is a line of its own without '='.
ActivatedDump(tag, bin) ==
    << << <<"PATH">>, Eq, bin, Colon, <<"usr", "bin">> >>,
       << <<"CONDA_DEFAULT_ENV">>, Eq >> \o tag >>
FunctionDump(tag, bin) ==
    ActivatedDump(tag, bin)
        \o << << <<"BASH_FUNC_ml">>, Eq, <<"()">> >>, << <<"}">> >> >>
DumpKinds == {"activated", "function"}
DumpOf(kind, tag, bin) ==
    IF kind = "function" THEN FunctionDump(tag, bin) ELSE ActivatedDump(tag, bin)

\* dict(line.split('=', 1) for line in lines): a line without '=' gives a
\* sequence of one element, which dict() refuses with ValueError.
shell_source(dump) ==
    LET pairs == [i \in 1..Len(dump) |-> SplitFirst(dump[i], Eq)]
    IN  IF \E i \in DOMAIN pairs : Len(pairs[i]) = 1
        THEN [ok |-> FALSE, v |-> EmptyEnv]
        ELSE [ok |-> TRUE, v |-> DictOf(pairs)]


\* -------------------------------------------- SubprocessRepl.__init__
\* One subprocess started by a launch: the login-shell query ("getenv"),
\* an activation shell ("shell_source", with its script), the primary, the
\* filter.
Spawn(kind, script) == [kind |-> kind, script |-> script]

\* Text the REPL's encoding has no bytes for: a lone surrogate.
Unencodable == { <<"\\udc80">> }

\* What self.encoder(str(x)) raises: a codec encoder raises
\* UnicodeEncodeError on text it cannot represent.
EncodeError(x) ==
    IF \E i \in DOMAIN x : x[i] \in Unencodable THEN "UnicodeEncodeError" ELSE "none"

\* The loop building bytes_env: a pair whose encoding raises
\* UnicodeDecodeError is skipped; any other exception leaves the loop.
ExceptContinue(exc) == exc = "UnicodeDecodeError"
PairError(k, v) == IF EncodeError(k) # "none" THEN EncodeError(k) ELSE EncodeError(v)
bytes_env(updated_env) ==
    LET bad == { k \in DOMAIN updated_env :
                    PairError(k, updated_env[k]) # "none"
                    /\ ~ExceptContinue(PairError(k, updated_env[k])) }
        kept == { k \in DOMAIN updated_env : PairError(k, updated_env[k]) = "none" }
    IN  IF bad # {}
        THEN [error |-> PairError(CHOOSE k \in bad : TRUE,
                                  updated_env[CHOOSE k \in bad : TRUE]),
              v |-> EmptyEnv]
        ELSE [error |-> "none",
              v |-> [b \in { PyBytes(k) : k \in kept } |-> PyBytes(updated_env[b.v])]]

\* SubprocessRepl.env: the base (env, or getenv() when env is empty or
\* None), then default_extend_env, then extend_env, each interpolated
\* against the environment built so far (a missing name is a KeyError),
\* then the encoding of every pair.
SubprocessRepl_env(env0, extend_env, default_extend_env, getenv_command, posix, query) ==
    LET g == IF env0 # EmptyEnv THEN [env |-> env0, spawned |-> FALSE, error |-> "none"]
             ELSE getenv(getenv_command, posix, query)
        d == Call2(interpolate_extend_env, g.env, default_extend_env)
        u1 == Update(g.env, d.v)
        e == Call2(interpolate_extend_env, u1, extend_env)
        b == Call(bytes_env, Update(u1, e.v))
    IN  [error |-> IF g.error # "none" THEN g.error
                   ELSE IF ~(d.ok /\ e.ok) THEN "KeyError"
                   ELSE b.error,
         base |-> g.env,
         env |-> b.v,
         spawns |-> IF g.spawned THEN <<Spawn("getenv", <<>>)>> ELSE <<>>]

\* env[b"SUBLIMEREPL_AC_PORT"] = str(None).encode("utf-8") (no autocomplete
\* server) and env[b"SUBLIMEREPL_AC_IP"] = the setting, encoded.
WithAutocomplete(benv) ==
    (PyBytes(Str("SUBLIMEREPL_AC_PORT")) :> PyBytes(Str("None")))
        @@ (PyBytes(Str("SUBLIMEREPL_AC_IP")) :> PyBytes(Str("autocomplete_server_ip")))
        @@ benv

\* strings_env[k.decode("utf-8")] = v.decode("utf-8")
strings_env(benv) == [k \in { b.v : b \in DOMAIN benv } |-> benv[PyBytes(k)].v]

\* SubprocessRepl.__init__: the sentinel test first, then the environment,
\* then the primary and, with filt_warns, the filter.
SubprocessRepl_init(cmd, env0, extend_env, default_extend_env, filtOn, getenv_command, posix, query) ==
    IF Head(cmd) = "[unsupported]"
    THEN [error |-> "Unsupported", msgs |-> Tail(cmd), spawns |-> <<>>,
          base |-> EmptyEnv, env |-> EmptyEnv]
    ELSE LET e == SubprocessRepl_env(env0, extend_env, default_extend_env,
                                     getenv_command, posix, query)
         IN  IF e.error # "none"
             THEN [error |-> e.error, msgs |-> <<>>, spawns |-> e.spawns,
                   base |-> e.base, env |-> EmptyEnv]
             ELSE [error |-> "none", msgs |-> <<>>,
                   spawns |-> e.spawns \o <<Spawn("primary", <<>>)>>
                              \o (IF filtOn THEN <<Spawn("filter", <<>>)>> ELSE <<>>),
                   base |-> e.base,
                   env |-> Call(strings_env, WithAutocomplete(e.env))]

\* ---------------------------------------- SubprocessReplVenv.__init__
CondaMinors == {3, 4}

\* os.path.join(activate_dir, 'activate')
ActivateScript(conda_minor, venvs_bin_dir, version, venv_paths) ==
    (IF conda_minor = 3 THEN venvs_bin_dir[version]
     ELSE dirname(venv_paths[1]) \o <<"bin">>) \o <<"activate">>

\* path = conda_env['PATH'].split(':'); path.insert(0, wrappers_dir[py_ver])
\* path.insert(1, venvs_bin_dir[py_ver]); ':'.join(path)
WrappedPath(path, wrapper, bin) ==
    Join(Insert(Insert(Split(path, Colon), 0, wrapper), 1, bin), Colon)

\* extend_env with the two keys the constructor sets when they are
\* missing (lines 367-375).
VenvExtendEnv(extend_env) ==
    extend_env @@ (Str("PY_VERSION") :> Str("py3")) @@ (Str("PYTHONIOENCODING") :> Str("utf-8"))

\* conda_env (line 366): the env argument, or self.getenv(settings).
VenvGetenv(posix, env0, getenv_command, query) ==
    IF env0 # EmptyEnv THEN [env |-> env0, spawned |-> FALSE, error |-> "none"]
    ELSE getenv(getenv_command, posix, query)

\* What the constructor holds before its choice of strategy, of the tags it
\* found (versions, in the order of the loop of line 390), the two
\* dictionaries of lines 360-361, the base environment g and the
\* extend_env ext.
VenvFields(versions, venvs_bin_dir, wrappers_dir, g, ext, py_ver) ==
    [py_ver |-> py_ver,
     ext |-> ext,
     versions |-> versions,
     venvs_bin_dir |-> venvs_bin_dir,
     wrappers_dir |-> wrappers_dir,
     discovered |-> DOMAIN venvs_bin_dir,
     bin |-> IF py_ver \in DOMAIN venvs_bin_dir THEN venvs_bin_dir[py_ver] ELSE <<>>,
     wrapperOnDisk |-> /\ py_ver \in DOMAIN wrappers_dir
                       /\ wrappers_dir[py_ver] \in WrapperDirsOnDisk,
     hadPATH |-> Str("PATH") \in DOMAIN g.env,
     basePATH |-> IF Str("PATH") \in DOMAIN g.env THEN g.env[Str("PATH")] ELSE <<>>,
     conda_env |-> g.env,
     getenvError |-> g.error,
     getenvSpawn |-> IF g.spawned THEN <<Spawn("getenv", <<>>)>> ELSE <<>>]

\* SubprocessReplVenv.__init__ up to its choice of strategy (lines
\* 353-375): discovery, the base environment, the target tag.
VenvBase(posix, env0, extend_env, venv_paths, getenv_command, query) ==
    VenvFields(KeysInOrder(scan_for_virtualenvs(venv_paths), {}),
               BinDirs(scan_for_virtualenvs(venv_paths)),
               WrappersDir(BinDirs(scan_for_virtualenvs(venv_paths))),
               VenvGetenv(posix, env0, getenv_command, query),
               VenvExtendEnv(extend_env),
               VenvExtendEnv(extend_env)[Str("PY_VERSION")])

\* What the part of SubprocessReplVenv.__init__ before line 405 comes to:
\* the strategy, the exception that ended it (the print of
\* conda_env['PATH'], line 404, raises KeyError without a PATH), the
\* environment for SubprocessRepl.__init__.
VenvDone(base, strategy, error, env1, shells, batches, cacheRead) ==
    IF base.getenvError # "none"
    THEN [base |-> base, strategy |-> "none", error |-> base.getenvError,
          env |-> base.conda_env, shells |-> <<>>,
          batches |-> 0, cacheRead |-> FALSE]
    ELSE [base |-> base, strategy |-> strategy,
          error |-> IF error = "none" /\ Str("PATH") \notin DOMAIN env1
                    THEN "KeyError" ELSE error,
          env |-> env1, shells |-> shells,
          batches |-> batches, cacheRead |-> cacheRead]

\* The branch taken at lines 378-387: "wrapper", "passthrough", "source"
\* (the tag is cached and force_source is off) or "sourcing" (the loop of
\* activation shells runs first).
VenvStrategy(base, cache, use_wrapped, force_source) ==
    IF use_wrapped /\ base.py_ver \in DOMAIN base.wrappers_dir THEN "wrapper"
    ELSE IF base.py_ver \in {Str("root"), Str("base")} THEN "passthrough"
    ELSE IF base.py_ver \notin DOMAIN cache \/ force_source THEN "sourcing"
    ELSE "source"

\* The wrapper branch, lines 379-382.
VenvWrapper(base) ==
    IF ~base.hadPATH
    THEN VenvDone(base, "wrapper", "KeyError", base.conda_env, <<>>, 0, FALSE)
    ELSE VenvDone(base, "wrapper", "none",
                  [base.conda_env EXCEPT ![Str("PATH")] =
                       WrappedPath(@, <<base.wrappers_dir[base.py_ver]>>,
                                   <<base.venvs_bin_dir[base.py_ver]>>)],
                  <<>>, 0, FALSE)

\* conda_env.update(delta) of line 400, delta being what
\* interpolate_extend_env made of the cached environment of the tag.
VenvUpdate(base, delta, shells, batches) ==
    IF ~delta.ok
    THEN VenvDone(base, "source", "KeyError", base.conda_env, shells, batches, TRUE)
    ELSE VenvDone(base, "source", "none", Update(base.conda_env, delta.v),
                  shells, batches, TRUE)

\* conda_env.update(self.interpolate_extend_env(conda_env, VENVS_ENVIRON[py_ver]))
\* (line 400), with VENVS_ENVIRON as it is by then.
VenvApply(base, cache, shells, batches) ==
    IF base.py_ver \notin DOMAIN cache
    THEN VenvDone(base, "source", "KeyError", base.conda_env, shells, batches, TRUE)
    ELSE VenvUpdate(base, Call2(interpolate_extend_env, base.conda_env, cache[base.py_ver]),
                    shells, batches)

\* The call when it does not come to lines 387-400: the wrapper branch, the
\* root or base tag, or an exception of line 366.
VenvNoWait(base, strategy) ==
    IF strategy = "wrapper" THEN VenvWrapper(base)
    ELSE VenvDone(base, "passthrough", "none", base.conda_env, <<>>, 0, FALSE)

\* The tags whose activation shell a call has to run: all it discovered,
\* when it takes the loop of line 390.
ToSource(base, strategy) == IF strategy = "sourcing" THEN base.versions ELSE <<>>

\* --------------------------------------------------------- the inputs
Cmds == { <<"python">>, <<"[unsupported]", "no python here">> }
SuppliedEnvs ==
    { EmptyEnv,
      (Str("PATH") :> << <<"opt", "bin">>, Colon, <<"bin">> >>),
      (Str("LANG") :> Str("C")) }
PyVersions == {"py2", "py9", "root", "base"}
ExtendEnvs == {EmptyEnv} \cup { (Str("PY_VERSION") :> Str(t)) : t \in PyVersions }
VenvPaths == { <<>>, <<RootA>>, <<RootB>>, <<RootA, RootB>>, <<RootB, RootA>> }

\* Environments given to the plain launcher: the ones above, one with a
\* NAME, one with a value the encoding cannot represent.
PlainEnvs ==
    SuppliedEnvs
        \cup { (Str("NAME") :> Str("sam")),
               (Str("PATH") :> << <<"bin">> >>) @@ (Str("MOTD") :> << <<"\\udc80">> >>) }

\* settings.get("default_extend_env"): none, one plain value, or two
\* templates of which one names the key of the other.
DefaultExtendEnvs ==
    { EmptyEnv,
      (Str("NAME") :> Str("pat")),
      (Str("NAME") :> Str("pat"))
          @@ (Str("GREETING") :> << <<"hi">>, Field("NAME") >>) }

\* extend_env of the plain launcher: none, a template over a base or
\* default key, a template over a key only the defaults set, overriding it.
PlainExtendEnvs ==
    { EmptyEnv,
      (Str("GREETING") :> << <<"hi">>, Field("NAME") >>),
      (Str("GREETING") :> << Field("GREETING"), <<"!">> >>) }

\* settings.get("getenv_command") and what the command answers when run.
NoGetenvCommand == [getenv_command |-> FALSE, query |-> [ok |-> FALSE, dump |-> <<>>]]
GetenvCases ==
    {NoGetenvCommand} \cup { [getenv_command |-> TRUE, query |-> q] : q \in LoginQueries }

\* The cases that tell launches with this env apart: getenv is called only
\* when env is empty or None.
GetenvCasesFor(env0) == IF env0 = EmptyEnv THEN GetenvCases ELSE {NoGetenvCommand}

NoLaunch ==
    [launcher |-> "none", cmd |-> <<>>, envGiven |-> FALSE, use_wrapped |-> FALSE, force_source |-> FALSE,
     py_ver |-> <<>>, discovered |-> {}, bin |-> <<>>, wrapperOnDisk |-> FALSE,
     hadPATH |-> FALSE, basePATH |-> <<>>, PATH |-> <<>>,
     strategy |-> "none", batches |-> 0, cacheRead |-> FALSE, cacheAtCall |-> "unread",
     resolveError |-> "none", error |-> "none", msgs |-> <<>>, spawns |-> <<>>,
     venv_paths |-> <<>>, kindOf |-> EmptyEnv, posix |-> FALSE,
     ge |-> NoGetenvCommand,
     baseEnv |-> EmptyEnv, defaults |-> EmptyEnv, extends |-> EmptyEnv, env |-> EmptyEnv]

\* SubprocessRepl(encoding, cmd, env, cwd, extend_env, ..., filt_warns)
LaunchPlain ==
    /\ launch = NoLaunch
    /\ calls = EmptyBag
    /\ \E cmd \in Cmds, env0 \in PlainEnvs, extend_env \in PlainExtendEnvs,
          default_extend_env \in DefaultExtendEnvs, filtOn \in BOOLEAN :
        \E ge \in GetenvCasesFor(env0) :
        \E r \in {SubprocessRepl_init(cmd, env0, extend_env, default_extend_env, filtOn,
                                       ge.getenv_command, POSIX, ge.query)} :
            launch' = [NoLaunch EXCEPT !.launcher = "plain", !.cmd = cmd,
                           !.envGiven = (env0 # EmptyEnv),
                           !.error = r.error, !.msgs = r.msgs, !.spawns = r.spawns,
                           !.posix = POSIX, !.ge = ge, !.baseEnv = r.base,
                           !.defaults = default_extend_env, !.extends = extend_env,
                           !.env = r.env]
    /\ UNCHANGED <<POSIX, lifeVars, VENVS_ENVIRON, calls>>

\* A SubprocessReplVenv.__init__ call on its way: its arguments and
\* settings, what it found of its tag in VENVS_ENVIRON at line 387, the
\* tags whose activation shell it has yet to run (it is waiting for the
\* first of them; with none left it is before line 400), whether it runs
\* the loop of line 390, the shells it has run and what they printed.
VenvCall(env0, ge, extend_env, venv_paths, use_wrapped, force_source, conda_minor, cacheAtCall, left, batches) ==
    [env0 |-> env0, ge |-> ge, extend_env |-> extend_env, venv_paths |-> venv_paths,
     use_wrapped |-> use_wrapped, force_source |-> force_source,
     conda_minor |-> conda_minor, cacheAtCall |-> cacheAtCall,
     left |-> left, batches |-> batches, shells |-> <<>>, kindOf |-> EmptyEnv]

\* What line 387 finds: VENVS_ENVIRON.get(py_ver) of a dict that is empty,
\* holds the tag, or holds other tags only.
CacheAtCall(strategy, cache, py_ver) ==
    IF strategy \notin {"source", "sourcing"} THEN "unread"
    ELSE IF py_ver \in DOMAIN cache THEN "hit"
    ELSE IF cache = EmptyEnv THEN "empty"
    ELSE "miss"

\* The calls the model lets run side by side: a PATH given, the tag py3
\* (which both roots hold), one root, no wrappers, the activate script of
\* the environment; one
\* that ends while another is under way has no filter and an empty
\* default_extend_env setting.
Overlaps(c) ==
    /\ c.env0 = (Str("PATH") :> << <<"opt", "bin">>, Colon, <<"bin">> >>)
    /\ c.extend_env = EmptyEnv
    /\ c.venv_paths \in { <<RootA>>, <<RootB>> }
    /\ ~c.use_wrapped
    /\ c.conda_minor = 3

\* super().__init__(encoding, cmd=cmd, env=conda_env, extend_env=extend_env,
\* ...) (line 405), reached when nothing was raised before it.  cmd,
\* filt_warns and the default_extend_env setting are read there.
VenvInit(c, v, cmd, filtOn, default_extend_env) ==
    IF v.error # "none"
    THEN [error |-> v.error, msgs |-> <<>>, spawns |-> <<>>,
          base |-> EmptyEnv, env |-> EmptyEnv]
    ELSE SubprocessRepl_init(cmd, v.env, v.base.ext, default_extend_env, filtOn,
                             c.ge.getenv_command, POSIX, c.ge.query)

\* What the call c did in all: v up to line 404, r at line 405.
VenvEnd(c, v, cmd, default_extend_env, r) ==
    [launcher |-> "venv", cmd |-> cmd, envGiven |-> (c.env0 # EmptyEnv),
     use_wrapped |-> c.use_wrapped,
     force_source |-> c.force_source, py_ver |-> v.base.py_ver,
     discovered |-> v.base.discovered, bin |-> v.base.bin,
     wrapperOnDisk |-> v.base.wrapperOnDisk,
     hadPATH |-> v.base.hadPATH, basePATH |-> v.base.basePATH,
     PATH |-> IF Str("PATH") \in DOMAIN v.env THEN v.env[Str("PATH")] ELSE <<>>,
     strategy |-> v.strategy, batches |-> v.batches,
     cacheRead |-> v.cacheRead, cacheAtCall |-> c.cacheAtCall,
     resolveError |-> v.error, error |-> r.error, msgs |-> r.msgs,
     spawns |-> v.base.getenvSpawn \o v.shells \o r.spawns,
     venv_paths |-> c.venv_paths, kindOf |-> c.kindOf, posix |-> POSIX,
     ge |-> c.ge, baseEnv |-> v.base.conda_env, defaults |-> default_extend_env,
     extends |-> v.base.ext, env |-> r.env]

\* What line 405 reads of its inputs: filt_warns and the default_extend_env
\* setting are read by SubprocessRepl.__init__ only when it is reached and
\* cmd is supported (lines 66-67 come first).
InitInputs(reached, alone) ==
    IF reached /\ alone THEN BOOLEAN \X DefaultExtendEnvs ELSE { <<FALSE, EmptyEnv>> }

\* Lines 404-405: the call c, which came to v before line 405, ends.
VenvReturns(c, v, alone) ==
    \E cmd \in Cmds :
    \E read \in InitInputs(v.error = "none" /\ Head(cmd) # "[unsupported]", alone) :
    \E init \in {VenvInit(c, v, cmd, read[1], read[2])} :
        launch' = VenvEnd(c, v, cmd, read[2], init)

\* The calls under way without one of them, and with one more.
Without(bag, c) == bag (-) SetToBag({c})
With(bag, c) == bag (+) SetToBag({c})

\* SubprocessReplVenv(encoding, cmd, env, cwd, extend_env, ...): the call
\* up to its first activation shell, to line 398 when it runs none, or to
\* its end when it does not come to line 387.  conda_minor is compared
\* inside the loop of line 390 only.
LaunchVenv ==
    /\ launch = NoLaunch
    /\ BagCardinality(calls) < MaxCalls
    /\ \E env0 \in SuppliedEnvs, extend_env \in ExtendEnvs, venv_paths \in VenvPaths :
        \E ge \in GetenvCasesFor(env0) :
        \E base \in {VenvBase(POSIX, env0, extend_env, venv_paths,
                              ge.getenv_command, ge.query)} :
        \E use_wrapped \in BOOLEAN, force_source \in BOOLEAN :
        \E strategy \in {VenvStrategy(base, VENVS_ENVIRON, use_wrapped, force_source)} :
        \E cacheAtCall \in {CacheAtCall(strategy, VENVS_ENVIRON, base.py_ver)} :
            IF base.getenvError = "none" /\ strategy \in {"sourcing", "source"}
            THEN /\ \E left \in {ToSource(base, strategy)} :
                    \E conda_minor \in (IF left = <<>> THEN {3} ELSE CondaMinors) :
                    \E c \in {VenvCall(env0, ge, extend_env, venv_paths, use_wrapped,
                                       force_source, conda_minor, cacheAtCall, left,
                                       IF strategy = "sourcing" THEN 1 ELSE 0)} :
                        /\ calls # EmptyBag =>
                              (Overlaps(c) /\ \A d \in BagToSet(calls) : Overlaps(d))
                        /\ calls' = With(calls, c)
                 /\ UNCHANGED launch
            ELSE /\ calls # EmptyBag =>
                      \A d \in BagToSet(calls) : Overlaps(d)
                 /\ \E c \in {VenvCall(env0, ge, extend_env, venv_paths, use_wrapped,
                                       force_source, 3, cacheAtCall, <<>>, 0)} :
                    \E v \in {VenvNoWait(base, strategy)} :
                        /\ calls # EmptyBag => Overlaps(c)
                        /\ VenvReturns(c, v, calls = EmptyBag)
                 /\ UNCHANGED calls
    /\ UNCHANGED <<POSIX, lifeVars, VENVS_ENVIRON>>

\* An activation shell a call was waiting for has printed its dump (line
\* 323 returns or raises):
\*     VENVS_ENVIRON[version] = self.shell_source(script, version)
\* A ValueError of shell_source ends the loop and the call.  After this
\* write the call starts the shell of the next tag, or, after the last
\* tag, goes on to line 398.
ShellSourceReturns ==
    /\ launch = NoLaunch
    /\ \E call \in BagToSet(calls) :
        /\ call.left # <<>>
        /\ \E base \in {VenvBase(POSIX, call.env0, call.extend_env,
                                 call.venv_paths, call.ge.getenv_command,
                                 call.ge.query)} :
           \E version \in {Head(call.left)} :
           \E kind \in DumpKinds :
           \E r \in {shell_source(DumpOf(kind, version, base.venvs_bin_dir[version]))} :
           \E c \in {[call EXCEPT
                         !.left = Tail(@),
                         !.shells = Append(@, Spawn("shell_source",
                                        ActivateScript(call.conda_minor, base.venvs_bin_dir,
                                                       version, call.venv_paths))),
                         !.kindOf = (version :> kind) @@ @]} :
               IF r.ok
               THEN /\ VENVS_ENVIRON' = (version :> r.v) @@ VENVS_ENVIRON
                    /\ calls' = With(Without(calls, call), c)
                    /\ UNCHANGED launch
               ELSE /\ UNCHANGED VENVS_ENVIRON
                    /\ calls' = Without(calls, call)
                    /\ \E v \in {VenvDone(base, "source", "ValueError",
                                          base.conda_env, c.shells, 1, TRUE)} :
                           VenvReturns(c, v, calls' = EmptyBag)
    /\ UNCHANGED <<POSIX, lifeVars>>

\* Lines 398-405 of a call that has come through lines 387-397:
\*     conda_env.update(self.interpolate_extend_env(conda_env, VENVS_ENVIRON[py_ver]))
\* reads VENVS_ENVIRON as it is by then, and the call goes on to its end.
conda_env_update ==
    /\ launch = NoLaunch
    /\ \E call \in BagToSet(calls) :
        /\ call.left = <<>>
        /\ \E base \in {VenvBase(POSIX, call.env0, call.extend_env,
                                 call.venv_paths, call.ge.getenv_command,
                                 call.ge.query)} :
           \E v \in {VenvApply(base, VENVS_ENVIRON, call.shells, call.batches)} :
               /\ calls' = Without(calls, call)
               /\ VenvReturns(call, v, calls' = EmptyBag)
    /\ UNCHANGED <<POSIX, lifeVars, VENVS_ENVIRON>>

\* The constructor call is over: its caller has the instance, or the
\* exception.
LaunchReturns ==
    /\ launch # NoLaunch
    /\ launch' = NoLaunch
    /\ UNCHANGED <<POSIX, lifeVars, VENVS_ENVIRON, calls>>

\* ------------------------------------------------------------- __init__
\* The instance after SubprocessRepl.__init__ returned: _killed False, both
\* processes spawned, nothing printed or written yet.
Init ==
    /\ POSIX \in BOOLEAN
    /\ filt_warns \in BOOLEAN
    /\ soft_quit \in SoftQuits
    /\ killed = FALSE
    /\ popen = "running"
    /\ filt = IF filt_warns THEN "running" ELSE "alias"
    /\ desc = FALSE
    /\ descIn = FALSE
    /\ out = <<>>
    /\ held = <<>>
    /\ got = <<>>
    /\ fed = 0
    /\ inq = 0
    /\ unflushed = FALSE
    /\ pc = "idle"
    /\ rd = "idle"
    /\ sig = 0
    /\ lastOp = "__init__"
    /\ ret = PyNone
    /\ err = "none"
    /\ killTrace = <<>>
    /\ sigTrace = <<>>
    /\ readTrace = <<>>
    /\ VENVS_ENVIRON = EmptyEnv
    /\ launch = NoLaunch
    /\ calls = EmptyBag

Next ==
    \/ is_alive
    \/ read_bytes
    \/ read_bytes_posix
    \/ out_read
    \/ read_bytes_one
    \/ write_bytes
    \/ write_bytes_flush
    \/ kill
    \/ kill_write
    \/ kill_popen
    \/ kill_filt
    \/ send_signal
    \/ send_signal_popen
    \/ send_signal_filt
    \/ PrimaryExit
    \/ FilterExit
    \/ FilterEndOfInput
    \/ DescendantStart
    \/ DescendantExit
    \/ DescendantClosesStdin
    \/ ChildOutput
    \/ ChildInput

Spec == Init /\ [][Next]_vars

\* The same, with the steps the program itself is bound to take: the
\* reading thread calls read_bytes again and again, and a call returns once
\* its descriptor is readable; a write, a kill or a send_signal call in
\* progress goes on to its next step once it does not have to wait; the
\* filter exits once its input is at its end.  The other processes owe
\* nothing: they exit, print, or read, when they do.
SpecLive ==
    /\ Init /\ [][Next]_vars
    /\ WF_vars(read_bytes)
    /\ WF_vars(read_bytes_posix)
    /\ WF_vars(out_read)
    /\ WF_vars(read_bytes_one)
    /\ WF_vars(write_bytes_flush)
    /\ WF_vars(kill_write)
    /\ WF_vars(kill_popen)
    /\ WF_vars(kill_filt)
    /\ WF_vars(send_signal_popen)
    /\ WF_vars(send_signal_filt)
    /\ WF_vars(FilterEndOfInput)

\* The host process before any launch: VENVS_ENVIRON = dict() (line 300).
InitVenv ==
    /\ POSIX \in BOOLEAN
    /\ VENVS_ENVIRON = EmptyEnv
    /\ launch = NoLaunch
    /\ calls = EmptyBag
    /\ filt_warns = FALSE
    /\ soft_quit = <<>>
    /\ killed = FALSE
    /\ popen = "running"
    /\ filt = "alias"
    /\ desc = FALSE
    /\ descIn = FALSE
    /\ out = <<>>
    /\ held = <<>>
    /\ got = <<>>
    /\ fed = 0
    /\ inq = 0
    /\ unflushed = FALSE
    /\ pc = "idle"
    /\ rd = "idle"
    /\ sig = 0
    /\ lastOp = "__init__"
    /\ ret = PyNone
    /\ err = "none"
    /\ killTrace = <<>>
    /\ sigTrace = <<>>
    /\ readTrace = <<>>

NextVenv == LaunchPlain \/ LaunchVenv \/ ShellSourceReturns \/ conda_env_update \/ LaunchReturns

SpecVenv == InitVenv /\ [][NextVenv]_vars

\* ======================================================= claims, under Spec

\* C1: kill() may be called any number of times in any state of the child
\* processes; every call leaves the killed flag true and no call raises,
\* also not a call made after the primary has exited.
C1_KillNeverRaises == (lastOp = "kill" /\ pc = "idle") => (killed /\ err = "none")

\* C2: every kill() call sets the flag, writes the soft-quit payload,
\* force-kills the primary and then (filter enabled) the filter, in that
\* order; a failing write does not prevent the force-kills.
C2_KillRunsAllSteps ==
    (lastOp = "kill" /\ pc = "idle") =>
        /\ Len(killTrace) = (IF filt_warns THEN 4 ELSE 3)
        /\ killTrace[1] = "set_killed"
        /\ killTrace[2] \in {"write", "write_raised"}
        /\ killTrace[3] = "popen.kill"
        /\ filt_warns => killTrace[4] = "filt.kill"
        /\ popen = "exited"
        /\ filt_warns => filt = "exited"

\* C3: is_alive() returns a true value exactly when the primary has not
\* exited and (the filter is disabled or the filter has not exited).
C3_IsAliveIff ==
    lastOp = "is_alive" =>
        (Truthy(ret) <=> (popen = "running" /\ (~filt_warns \/ filt = "running")))

\* C3 witness: is_alive() answered false for a running primary whose filter
\* has exited.
C3_Witness ==
    /\ lastOp = "is_alive"
    /\ filt_warns /\ popen = "running" /\ filt = "exited"
    /\ ~Truthy(ret)

\* C4: the killed flag is false after launch and, once true, stays true
\* through every later is_alive, read_bytes, write_bytes, kill, send_signal.
C4_KilledOneWay == (killed = FALSE) /\ [][killed => killed']_vars

\* C4 witness: the flag is still set after a later send_signal of a signal
\* other than SIGTERM has delivered its signal.
C4_Witness ==
    /\ killed
    /\ lastOp = "send_signal" /\ sig = SIGINT /\ pc = "idle"
    /\ sigTrace # <<>>

\* C5: send_signal(sig) sets the killed flag when sig is SIGTERM and leaves
\* it unchanged for every other signal; only kill() and send_signal(SIGTERM)
\* ever change the flag.
C5_KilledFrame ==
    [][ /\ (pc = "idle" /\ lastOp' = "send_signal")
            => killed' = (killed \/ sig' = SIGTERM)
        /\ killed' # killed
            => \/ lastOp' = "kill"
               \/ (pc = "idle" /\ lastOp' = "send_signal" /\ sig' = SIGTERM)
      ]_vars

\* C5 witness: a send_signal of another signal ran to its end on a live
\* chain and the flag is still false.
C5_Witness ==
    /\ lastOp = "send_signal" /\ sig = SIGINT /\ pc = "idle"
    /\ sigTrace # <<>>
    /\ ~killed

\* C6: send_signal never delivers a signal to a process that has already
\* exited, under every interleaving with the exit of the primary or filter.
C6_SignalOnlyToRunning == \A i \in DOMAIN sigTrace : sigTrace[i].running

\* =================================================== claims, under SpecVenv

\* The subprocesses of a launch started before SubprocessRepl.__init__
\* spawns the primary: login-shell queries and activation shells.
KindsOf(spawns) == { spawns[i].kind : i \in DOMAIN spawns }

\* C7: a launch whose command starts with the unsupported sentinel fails
\* with Unsupported carrying the remaining arguments, and before that no
\* subprocess of any kind is spawned and the sourcing cache is unchanged,
\* for the plain launcher and for the virtual-environment launcher.
C7_UnsupportedFailsFast ==
    [][ (launch' # NoLaunch /\ Head(launch'.cmd) = "[unsupported]")
            => /\ launch'.error = "Unsupported"
               /\ launch'.msgs = Tail(launch'.cmd)
               /\ launch'.spawns = <<>>
               /\ VENVS_ENVIRON' = VENVS_ENVIRON
      ]_vars

\* C8: the first sourcing-strategy resolve with an empty cache runs exactly
\* one sourcing batch and populates the cache for every discovered tag;
\* after that, every resolve for a cached tag without force_source starts
\* no activation shell and leaves the cache unchanged.
C8_SourcingCacheHit ==
    [][ launch'.launcher = "venv"
            => /\ (launch'.strategy = "source" /\ launch'.cacheAtCall = "empty")
                    => /\ launch'.batches = 1
                       /\ launch'.discovered \subseteq DOMAIN VENVS_ENVIRON'
               /\ (launch'.cacheAtCall = "hit" /\ ~launch'.force_source)
                    => /\ launch'.batches = 0
                       /\ "shell_source" \notin KindsOf(launch'.spawns)
                       /\ VENVS_ENVIRON' = VENVS_ENVIRON
      ]_vars

\* The PATH the wrapper strategy is to produce for the resolve recorded in
\* l: wrapper directory, binary directory, then the previous entries.
WrapperEntries(l) ==
    << <<l.bin \o <<"wrappers", "conda">> >>, <<l.bin>> >> \o Split(l.basePATH, Colon)

\* C9: for a discovered tag with a wrapper directory, resolve
\* with use_wrapped spawns no subprocess, neither reads nor writes the
\* sourcing cache, and returns the base environment with PATH = wrapper
\* directory, binary directory, previous entries (taken for the base
\* environments that have a PATH, the ones with previous entries).
C9_WrapperNoSpawn ==
    [][ (launch'.launcher = "venv" /\ launch'.use_wrapped /\ launch'.wrapperOnDisk
            /\ launch'.hadPATH)
            => /\ KindsOf(launch'.spawns) \cap {"getenv", "shell_source"} = {}
               /\ ~launch'.cacheRead
               /\ VENVS_ENVIRON' = VENVS_ENVIRON
               /\ launch'.resolveError = "none"
               /\ Split(launch'.PATH, Colon) = WrapperEntries(launch')
      ]_vars

\* C10: the wrapper strategy is used only when use_wrapped is set and a
\* wrapper directory exists for the target tag; with use_wrapped set and no
\* wrapper directory, resolve falls back to the sourcing strategy and PATH
\* is not prefixed with the missing directory.
C10_WrapperOnlyIfOnDisk ==
    launch.launcher = "venv" =>
        /\ launch.strategy = "wrapper" => (launch.use_wrapped /\ launch.wrapperOnDisk)
        /\ (launch.use_wrapped /\ ~launch.wrapperOnDisk
                /\ launch.py_ver \notin {Str("root"), Str("base")})
             => /\ launch.strategy = "source"
                /\ launch.bin # <<>> =>
                      Head(Split(launch.PATH, Colon)) # <<launch.bin \o <<"wrappers", "conda">> >>

\* C11: when the target tag is root or base, resolve passes the base
\* environment through unmodified, whatever use_wrapped, force_source, the
\* discovered tags and the cache are: no activation shell is started, PATH
\* is the base environment's PATH (no wrapper directory in front), and the
\* sourcing cache is unchanged.
C11_RootPassthrough ==
    [][ (launch'.launcher = "venv" /\ launch'.py_ver \in {Str("root"), Str("base")})
            => /\ launch'.strategy = "passthrough"
               /\ "shell_source" \notin KindsOf(launch'.spawns)
               /\ launch'.PATH = launch'.basePATH
               /\ VENVS_ENVIRON' = VENVS_ENVIRON
      ]_vars

\* C12: a resolve whose target tag (other than root and base) is not among
\* the tags discovered for this call fails with an error and does not spawn
\* the primary process, whatever the sourcing cache holds from earlier
\* resolves made with other venv_paths.
C12_AbsentTagFails ==
    (/\ launch.launcher = "venv"
     /\ launch.py_ver \notin {Str("root"), Str("base")}
     /\ launch.py_ver \notin launch.discovered)
        => /\ launch.resolveError # "none"
           /\ "primary" \notin KindsOf(launch.spawns)

\* The two-template defaults, and the caller templates, of the launches.
TwoDefaults == (Str("NAME") :> Str("pat")) @@ (Str("GREETING") :> << <<"hi">>, Field("NAME") >>)
HiName == (Str("GREETING") :> << <<"hi">>, Field("NAME") >>)
Louder == (Str("GREETING") :> << Field("GREETING"), <<"!">> >>)

\* C13: the environment build applies the default templates first and the
\* caller's templates second, each set interpolated in one pass against
\* the environment built before it: a caller template sees the values the
\* defaults set and overrides their keys, a template does not see another
\* template of its own set.  GREETING='hi {NAME}' over NAME='sam' gives
\* NAME='sam', GREETING='hi sam'.
C13_TemplatePhases ==
    (launch.launcher = "plain" /\ launch.error = "none") =>
        LET base == launch.baseEnv
            dflt == launch.defaults
            ext == launch.extends
            afterDefaults == [k \in DOMAIN base \cup DOMAIN dflt |->
                                IF k \in DOMAIN dflt THEN Format(dflt[k], base).v
                                ELSE base[k]]
        IN  /\ DOMAIN base \cup DOMAIN dflt \cup DOMAIN ext \subseteq DOMAIN launch.env
            /\ \A k \in DOMAIN afterDefaults \cup DOMAIN ext :
                  launch.env[k] = IF k \in DOMAIN ext
                                  THEN Format(ext[k], afterDefaults).v
                                  ELSE afterDefaults[k]
            /\ (base = (Str("NAME") :> Str("sam")) /\ dflt = EmptyEnv /\ ext = HiName)
                  => /\ launch.env[Str("NAME")] = Str("sam")
                     /\ launch.env[Str("GREETING")] = << <<"hi">>, <<"sam">> >>
            /\ (base = (Str("NAME") :> Str("sam")) /\ dflt = TwoDefaults)
                  => /\ launch.env[Str("NAME")] = Str("pat")
                     /\ ext = EmptyEnv
                          => launch.env[Str("GREETING")] = << <<"hi">>, <<"sam">> >>
                     /\ ext = HiName
                          => launch.env[Str("GREETING")] = << <<"hi">>, <<"pat">> >>
                     /\ ext = Louder
                          => launch.env[Str("GREETING")] = << <<"hi">>, <<"sam">>, <<"!">> >>

\* C13 witness: a launch over NAME='sam' with both template sets, whose
\* caller template read the NAME the defaults had set.
C13_Witness ==
    /\ launch.launcher = "plain" /\ launch.error = "none"
    /\ launch.baseEnv = (Str("NAME") :> Str("sam"))
    /\ launch.defaults = TwoDefaults /\ launch.extends = HiName
    /\ launch.env[Str("GREETING")] = << <<"hi">>, <<"pat">> >>

\* C14: during the environment build a pair whose key or value cannot be
\* encoded is dropped and every other pair is in the result; an encoding
\* failure of one pair never ends the build or the launch.
C14_EncodingDrop ==
    (launch.launcher = "plain" /\ Head(launch.cmd) # "[unsupported]") =>
        /\ launch.error # "UnicodeEncodeError"
        /\ launch.error = "none" =>
              \A k \in DOMAIN launch.baseEnv \ (DOMAIN launch.defaults \cup DOMAIN launch.extends) :
                  (k \in DOMAIN launch.env)
                      <=> (EncodeError(k) = "none" /\ EncodeError(launch.baseEnv[k]) = "none")

\* A launch that ran the login-shell query: no environment given, a
\* getenv_command set, on POSIX, and (plain launcher) a supported command.
RanQuery(l) ==
    /\ l.launcher # "none" /\ ~l.envGiven
    /\ l.ge.getenv_command /\ l.posix
    /\ l.launcher = "plain" => Head(l.cmd) # "[unsupported]"

HasEq(line) == \E i \in DOMAIN line : line[i] = Eq

\* C15: a failure while obtaining the base environment from the login
\* shell (the command fails, or its first dump line has no '=') is
\* absorbed: the base environment is the inherited snapshot and the
\* failure does not reach the caller of the launch.
C15_GetenvAbsorbed ==
    (RanQuery(launch) /\ (~launch.ge.query.ok \/ ~HasEq(launch.ge.query.dump[1])))
        => /\ launch.baseEnv = OsEnviron
           /\ launch.error \notin {"CalledProcessError", "IndexError"}
           /\ "getenv" \in KindsOf(launch.spawns)

\* C15 witness: a plain launch whose query printed a first line without
\* '=', and which went on to spawn the primary over the inherited snapshot.
C15_Witness ==
    /\ launch.launcher = "plain" /\ RanQuery(launch)
    /\ launch.ge.query.ok /\ ~HasEq(launch.ge.query.dump[1])
    /\ launch.baseEnv = OsEnviron
    /\ launch.error = "none" /\ "primary" \in KindsOf(launch.spawns)

\* The parse the dump format calls for: a line without '=' belongs to the
\* line before it, after a newline; each line is then split at its first '='.
RECURSIVE FoldLines(_)
FoldLines(lines) ==
    IF Len(lines) <= 1 THEN lines
    ELSE LET n == Len(lines)
             f == FoldLines(SubSeq(lines, 1, n - 1))
         IN  IF HasEq(lines[n]) THEN Append(f, lines[n])
             ELSE [f EXCEPT ![Len(f)] = @ \o <<NL>> \o lines[n]]
ParseDump(lines) ==
    LET f == FoldLines(lines)
    IN  DictOf([i \in DOMAIN f |-> SplitFirst(f[i], Eq)])

\* C16: a KEY=VALUE dump is parsed by folding every line without '=' into
\* the value of the key before it, after a newline, and splitting a line at
\* its first '=' only, both for the login-shell query and for the output of
\* an activation shell.
C16_DumpFolding ==
    /\ (RanQuery(launch) /\ launch.ge.query.ok /\ HasEq(launch.ge.query.dump[1]))
          => launch.baseEnv = ParseDump(launch.ge.query.dump)
    /\ (launch.launcher = "venv" /\ launch.batches = 1)
          => LET bins == BinDirs(scan_for_virtualenvs(launch.venv_paths))
             IN  \A t \in launch.discovered :
                    /\ t \in DOMAIN VENVS_ENVIRON
                    /\ t \in DOMAIN launch.kindOf
                    /\ VENVS_ENVIRON[t] = ParseDump(DumpOf(launch.kindOf[t], t, bins[t]))

\* The name of a tag.
TagName(py_ver) == py_ver[1][1]

\* C18: when two roots of venv_paths hold an environment
\* directory of the same name, the tag maps to the binary directory under
\* the root that comes later in venv_paths, for every order of the roots.
C18_LastRootWins ==
    (launch.launcher = "venv" /\ launch.py_ver \in launch.discovered) =>
        LET tag == TagName(launch.py_ver)
            last == CHOOSE i \in DOMAIN launch.venv_paths :
                       /\ tag \in EnvDirs[launch.venv_paths[i]]
                       /\ \A j \in DOMAIN launch.venv_paths :
                             tag \in EnvDirs[launch.venv_paths[j]] => j <= i
        IN  launch.bin = launch.venv_paths[last] \o <<tag, "bin">>

\* ===================================================== claims, under Spec

RECURSIVE StripCR(_)
StripCR(s) ==
    IF s = <<>> THEN <<>>
    ELSE (IF Head(s) = CR THEN <<>> ELSE <<Head(s)>>) \o StripCR(Tail(s))

\* C19: on the one-byte read strategy read_bytes never returns a carriage
\* return: what the calls return, put end to end, is the child's output
\* without its carriage returns, the other bytes in their order, and an
\* empty result is returned only when the stream is closed.
C19_NoCarriageReturn ==
    [][ (rd = "read" /\ lastOp' = "read_bytes") =>
            LET returned == IF rd' = "idle" THEN ret'.v ELSE <<>>
            IN  /\ \A i \in DOMAIN returned : returned[i] # CR
                /\ returned = StripCR(readTrace')
                /\ returned \o StripCR(held' \o out') = StripCR(held \o out)
                /\ rd' = "idle" =>
                      /\ ret'.type = "bytes"
                      /\ ret'.v = <<>> => (~Writers /\ out = <<>> /\ held = <<>>)
      ]_vars

\* C19 witness: a one-byte read has taken a carriage return, has returned
\* nothing for it and goes round for the letter behind it.
C19_Witness ==
    /\ ~POSIX /\ lastOp = "read_bytes" /\ rd = "read"
    /\ readTrace = <<CR>>
    /\ ret = PyNone
    /\ held \o out = <<97>>

\* The deliveries of a send_signal call, as the handles they went to.
Targets(trace) == [i \in DOMAIN trace |-> trace[i].to]

\* C20: with the filter enabled, send_signal delivers the signal to both
\* processes or to neither: to the primary and then to the filter exactly
\* when is_alive() holds at the call, so a running primary gets no signal
\* once the filter has exited.
C20_BothOrNeither ==
    [][ filt_warns =>
            /\ (pc = "idle" /\ lastOp' = "send_signal")
                  => /\ (pc' = "popen.send_signal")
                            <=> (popen = "running" /\ filt = "running")
                     /\ (pc' = "idle") <=> ~(popen = "running" /\ filt = "running")
                     /\ sigTrace' = <<>>
            /\ (pc # "idle" /\ pc' = "idle" /\ lastOp' = "send_signal")
                  => /\ Targets(sigTrace') = <<"popen", "filt">>
                     /\ sigTrace'[1].sig = sig /\ sigTrace'[2].sig = sig
      ]_vars

\* C20 witness: with the filter, a send_signal call made while both
\* processes ran has returned after its two deliveries, the primary's first.
C20_Witness ==
    /\ filt_warns /\ lastOp = "send_signal" /\ pc = "idle" /\ sig = SIGINT
    /\ Targets(sigTrace) = <<"popen", "filt">>

\* =================================================== claims, under SpecLive

\* A read_bytes call is waiting: nothing is in the pipe and a process
\* holds its write end (and, on the one-byte strategy, the reader's buffer
\* is empty).
Blocked == ~Readable /\ (rd = "select" \/ (rd = "read" /\ held = <<>>))

\* C17: when a read_bytes call is waiting for output and kill() is called,
\* with or without the filter, the read eventually returns, with an empty
\* result and no exception, and is_alive() is false from then on.
C17_KillUnblocksRead ==
    (Blocked /\ lastOp = "kill" /\ killTrace = <<"set_killed">>)
        ~> (/\ lastOp = "read_bytes" /\ rd = "idle"
            /\ ret = PyBytes(<<>>) /\ err = "none"
            /\ ~Truthy(IsAliveValue(popen, FiltProc, filt_warns)))

====
